---- MODULE Spec2Model ----
(***************************************************************************)
(* Order endpoints of the Besties Craft backend (src/server.py): the       *)
(* orders and products collections of the document store, and the request  *)
(* handlers create_order, verify_payment, update_order_status and          *)
(* update_product, each taken as one atomic step that ends in a response.  *)
(*                                                                         *)
(* Money is kept in thousandths of a rupee (exact decimal arithmetic), so  *)
(* that a price with a fraction of a paisa can be written; an ObjectId is  *)
(* the number the store issued it under; a timestamp is a clock reading.   *)
(* Of an order document the model keeps user_id, items, status,            *)
(* total_amount, paidAt and updatedAt; createdAt, the addresses and the    *)
(* payment method are written once at insertion and no order handler       *)
(* writes them again or computes a response from them.                     *)
(*                                                                         *)
(* Spec      the order lifecycle over the start-up catalog                 *)
(* SpecPrice order creation against a catalog whose prices the admin edits *)
(* SpecAdmin the admin-scoped handlers, with good and bad credentials      *)
(* SpecFault the order handlers when a call to the store may raise         *)
(* SpecStock the storefront product pages while the admin edits the stock  *)
(* SpecCarrier shipping quotation, courier booking and order tracking, as  *)
(*           the specification of the service describes them               *)
(* SpecCart  the cart and the order form while the admin deletes products  *)
(* SpecOtp   one-time-password login, one request at a time, with a clock  *)
(* SpecOtpRace the same login with requests running between each other's   *)
(*           calls to the store                                            *)
(***************************************************************************)
EXTENDS Integers, Sequences, FiniteSets, Bags, TLC

\* ---------------------------------------------------------------- bounds
MaxOrders == 2        \* Spec: order documents ever inserted
MaxTime == 1          \* Spec: last reading of the clock
MaxPricedOrders == 1  \* SpecPrice: order documents ever inserted
MaxCartItems == 2     \* SpecPrice: longest item list of an order request
MaxStoreOrders == 2   \* SpecFault: order documents ever inserted
MaxAdminOrders == 1   \* SpecAdmin: order documents ever inserted
MaxProducts == 3      \* SpecAdmin: product ObjectIds ever issued
MaxStock == 4         \* SpecStock: largest stock count of one SKU
MaxLogins == 2        \* SpecCarrier: carrier tokens ever fetched
MaxShipments == 2     \* SpecCarrier: carrier-side shipments ever created
MaxCartLen == 2       \* SpecCart: longest cart
MaxCartOrders == 1    \* SpecCart: order documents ever inserted
MaxOtps == 2          \* SpecOtp: OTP records ever inserted
MaxSeconds == 1201    \* SpecOtp: last reading of the clock, in seconds
MaxThreads == 2       \* SpecOtpRace: login requests in flight at once
MaxRaceOtps == 2      \* SpecOtpRace: OTP records ever inserted

\* ------------------------------------------------------- program constants
Unset == 0 - 1        \* a field the document does not have
NoOid == 0            \* an ObjectId that names no document
InvalidId == 0 - 2    \* bson.ObjectId raised InvalidId

ADMIN_TOKEN == "your-secret-token"
OTP_TTL == 600     \* seconds an OTP lives

\* ------------------------------------------------------------ input sets
ProductOids == {1, 2}
Prices == {4996, 500000}       \* 4.996 and 500 rupees
Users == {"u1"}
Auths == {"", "tok"}
AdminTokens == {"", ADMIN_TOKEN}
AnyAdminTokens == {"", "not-the-token", ADMIN_TOKEN}
AdminStatuses == {"", "pending", "shipped"}
PaymentIds == {"pay_1"}
SigKeys == {"rzp_secret", "forged"}

\* An id as a request carries it: a well-formed 24-hex string (n is the
\* ObjectId it spells), a malformed string, or no id at all.
OidStr(n) == [kind |-> "oid", n |-> n]
MalformedId == [kind |-> "malformed", n |-> 0]
AbsentId == [kind |-> "absent", n |-> 0]

OrderIdInputs == {OidStr(n) : n \in 1..(MaxOrders + 1)} \cup {MalformedId, AbsentId}
ProductIdInputs == {OidStr(n) : n \in ProductOids \cup {3}} \cup {MalformedId}
AdminProductIdInputs == {OidStr(n) : n \in 1..(MaxProducts + 1)} \cup {MalformedId}

Signatures == [key : SigKeys, order : OrderIdInputs, payment : PaymentIds]

\* The cart items of Spec: one unit of the first product, of a product the
\* catalog does not have, or of a malformed product id.
PlainCartItem == [product_id : {OidStr(1), OidStr(3), MalformedId}, quantity : {1}]

\* The cart items of SpecPrice: two units of the first product, one unit of
\* the second, or one unit of a malformed product id.
PricedCartItem ==
    {[product_id |-> OidStr(1), quantity |-> 2],
     [product_id |-> OidStr(2), quantity |-> 1],
     [product_id |-> MalformedId, quantity |-> 1]}

RECURSIVE SeqsUpTo(_, _)
SeqsUpTo(S, n) ==
    IF n = 0 THEN {<< >>}
    ELSE LET shorter == SeqsUpTo(S, n - 1)
         IN  shorter \cup {Append(s, x) : s \in {t \in shorter : Len(t) = n - 1}, x \in S}

ItemLists == {<<i>> : i \in PlainCartItem}
PricedItemLists == SeqsUpTo(PricedCartItem, MaxCartItems)

\* A total the caller adds to the request body although the Order model
\* declares no such field.
ClaimedTotals == {1}
ClaimedTotalOf == CHOOSE t \in ClaimedTotals : TRUE

VARIABLES
    dbConnected,   \* db is not None
    products,      \* db.products: ObjectId -> document
    orders,        \* db.orders: ObjectId -> document
    now,           \* datetime.utcnow()
    resp,          \* the response to the last request
    productSeq,    \* how many product ObjectIds the store has issued
    carrier,       \* the carrier: token cache, tokens and shipments it has
                   \* issued, and the calls the last request made to it
    auth,          \* db.otps and db.users, with the count of OTP records
                   \* issued and of logins each of them has granted
    carts,         \* db.carts: user_id -> items
    threads        \* send_otp and verify_otp requests between two calls
                   \* to the store, each with its local otp_record

vars == <<dbConnected, products, orders, now, resp, productSeq, carrier,
          auth, carts, threads>>

\* What the order handlers never touch.
aux == <<productSeq, carrier, auth, carts, threads>>

\* ------------------------------------------------------------- helpers

\* The empty otps, users and carts collections, and no request in flight.
NoAuth == [otps |-> << >>, users |-> << >>, issued |-> 0, logins |-> << >>]
NoCarts == << >>
NoThreads == << >>

\* The carrier before any request: no cached token, nothing issued.
NoCarrier == [token |-> 0, logins |-> 0, shipments |-> 0, trace |-> << >>]

\* bson.ObjectId(x): the id a well-formed string spells, a newly generated
\* id (one no document has) for None, InvalidId for anything else.
ObjectId(x) ==
    CASE x.kind = "oid" -> x.n
      [] x.kind = "absent" -> NoOid
      [] OTHER -> InvalidId

\* order.dict(): the fields the Order model declares; anything else the
\* caller put in the body is dropped.
OrderDict(body) == [user_id |-> body.user_id, items |-> body.items]

\* The loop of create_order over the items: the running total, or a failure
\* at the first item whose product id is malformed or names no product (the
\* 404 raised inside the try is caught by the bare except and becomes 400).
RECURSIVE SumItems_IgnoresQuantity(_, _, _, _)
SumItems_IgnoresQuantity(catalog, items, i, total) ==
    IF i > Len(items) THEN [ok |-> TRUE, total |-> total]
    ELSE LET oid == ObjectId(items[i].product_id)
         IN  IF oid = InvalidId \/ oid \notin DOMAIN catalog
             THEN [ok |-> FALSE, total |-> total]
             ELSE SumItems_IgnoresQuantity(catalog, items, i + 1,
                                           total + catalog[oid].base_price)

RECURSIVE SumItems(_, _, _, _)
SumItems(catalog, items, i, total) ==
    IF i > Len(items) THEN [ok |-> TRUE, total |-> total]
    ELSE LET oid == ObjectId(items[i].product_id)
         IN  IF oid = InvalidId \/ oid \notin DOMAIN catalog
             THEN [ok |-> FALSE, total |-> total]
             ELSE SumItems(catalog, items, i + 1,
                           total + catalog[oid].base_price * items[i].quantity)

\* int(total * 100): paise, truncated towards zero.
ToPaise(total) ==
    IF total >= 0 THEN total \div 10 ELSE 0 - ((0 - total) \div 10)

\* The JSON body: a handler's own dict carries success: True; an
\* HTTPException is rendered by the framework as {"detail": ...}.
JsonBody_SuccessFalse(code) ==
    IF code = 200 THEN [success |-> TRUE]
    ELSE [success |-> FALSE, detail |-> "message"]

JsonBody(code) ==
    IF code = 200 THEN [success |-> TRUE] ELSE [detail |-> "message"]

Response(op, code) ==
    [op |-> op, code |-> code, amount |-> Unset, body |-> JsonBody(code)]

\* A credential check that also lets a request without the header through.
IsAdmin_AcceptsMissing(admin_token) == admin_token \in {ADMIN_TOKEN, ""}

\* admin_token != os.getenv("ADMIN_TOKEN", "your-secret-token")
IsAdmin(admin_token) == admin_token = ADMIN_TOKEN

\* update_one with upsert=True: a document is made when none matches.
UpdateOne_Upsert(coll, oid, fields) ==
    [id \in DOMAIN coll \cup {oid} |->
        IF id = oid
        THEN IF oid \in DOMAIN coll
             THEN [f \in DOMAIN coll[oid] |->
                     IF f \in DOMAIN fields THEN fields[f] ELSE coll[oid][f]]
             ELSE fields
        ELSE coll[id]]

\* delete_one where update_one is meant: the matched document is removed.
UpdateOne_Removes(coll, oid, fields) ==
    [id \in DOMAIN coll \ {oid} |-> coll[id]]

\* update_many with an empty filter: the fields are set on every document.
UpdateOne_Many(coll, oid, fields) ==
    IF oid \in DOMAIN coll
    THEN [id \in DOMAIN coll |->
            [f \in DOMAIN coll[id] |->
               IF f \in DOMAIN fields THEN fields[f] ELSE coll[id][f]]]
    ELSE coll

\* db.orders.update_one({"_id": oid}, {"$set": fields})
UpdateOne(coll, oid, fields) ==
    IF oid \in DOMAIN coll
    THEN [coll EXCEPT ![oid] = [f \in DOMAIN coll[oid] |->
                                  IF f \in DOMAIN fields THEN fields[f] ELSE coll[oid][f]]]
    ELSE coll

\* db.orders.insert_one(doc): the store issues the next ObjectId.
InsertedId(coll) == Cardinality(DOMAIN coll) + 1

\* A store keyed by a fixed key: the new document replaces the first one.
InsertOne_Replaces(coll, doc) ==
    [oid \in DOMAIN coll \cup {1} |-> IF oid = 1 THEN doc ELSE coll[oid]]

InsertOne(coll, doc) ==
    [oid \in DOMAIN coll \cup {InsertedId(coll)} |->
        IF oid \in DOMAIN coll THEN coll[oid] ELSE doc]

\* The document create_order inserts.
NewOrderDoc(order_dict, total) ==
    [user_id |-> order_dict.user_id,
     items |-> order_dict.items,
     status |-> "pending",
     total_amount |-> total,
     paidAt |-> Unset,
     updatedAt |-> Unset]

\* verify_payment that stamps the time and leaves the status alone.
PaidFields_KeepsStatus(t) == [paidAt |-> t]

\* verify_payment that marks the order without stamping the time.
PaidFields_NoStamp(t) == [status |-> "completed"]

\* The $set document of verify_payment.
PaidFields(t) == [status |-> "completed", paidAt |-> t]

\* The $set document of update_order_status.
StatusFields(new_status, t) == [status |-> new_status, updatedAt |-> t]

\* -------------------------------------------------------------- Init

Init ==
    /\ dbConnected \in BOOLEAN
    /\ products = [p \in ProductOids |-> [base_price |-> 500000]]
    /\ orders = << >>
    /\ now = 0
    /\ resp = Response("none", 0)
    /\ productSeq = Cardinality(ProductOids)
    /\ carrier = NoCarrier
    /\ auth = NoAuth
    /\ carts = NoCarts
    /\ threads = NoThreads

\* ------------------------------------------------------------- actions

Tick ==
    /\ now < MaxTime
    /\ now' = now + 1
    /\ UNCHANGED <<dbConnected, products, orders, resp>>
    /\ UNCHANGED aux

\* POST /api/orders
create_order(authorization, body) ==
    LET order_dict == OrderDict(body)
        sum == SumItems(products, order_dict.items, 1, 0)
        doc == NewOrderDoc(order_dict, sum.total)
    IN  /\ UNCHANGED <<dbConnected, products, now>>
        /\ IF ~dbConnected
           THEN resp' = Response("create_order", 503) /\ UNCHANGED orders
           ELSE IF authorization = ""
           THEN resp' = Response("create_order", 401) /\ UNCHANGED orders
           ELSE IF ~sum.ok
           THEN resp' = Response("create_order", 400) /\ UNCHANGED orders
           ELSE /\ orders' = InsertOne(orders, doc)
                /\ resp' = [op |-> "create_order", code |-> 200,
                            amount |-> ToPaise(sum.total), body |-> JsonBody(200)]

\* POST /api/orders/verify-payment
verify_payment(payment_data) ==
    LET obj_id == ObjectId(payment_data.order_id)
    IN  /\ UNCHANGED <<dbConnected, products, now>>
        /\ IF ~dbConnected
           THEN resp' = Response("verify_payment", 503) /\ UNCHANGED orders
           ELSE IF obj_id = InvalidId
           THEN resp' = Response("verify_payment", 400) /\ UNCHANGED orders
           ELSE /\ orders' = UpdateOne(orders, obj_id, PaidFields(now))
                /\ resp' = Response("verify_payment",
                                    IF obj_id \in DOMAIN orders THEN 200 ELSE 404)

\* PUT /api/admin/orders/{order_id}
update_order_status(order_id, status_data, admin_token) ==
    LET obj_id == ObjectId(order_id)
        new_status == status_data.status
    IN  /\ UNCHANGED <<dbConnected, products, now>>
        /\ IF ~dbConnected
           THEN resp' = Response("update_order_status", 503) /\ UNCHANGED orders
           ELSE IF ~IsAdmin(admin_token)
           THEN resp' = Response("update_order_status", 401) /\ UNCHANGED orders
           ELSE IF obj_id = InvalidId
           THEN resp' = Response("update_order_status", 400) /\ UNCHANGED orders
           ELSE IF new_status = ""
           THEN resp' = Response("update_order_status", 400) /\ UNCHANGED orders
           ELSE /\ orders' = UpdateOne(orders, obj_id, StatusFields(new_status, now))
                /\ resp' = Response("update_order_status",
                                    IF obj_id \in DOMAIN orders THEN 200 ELSE 404)

\* PUT /api/admin/products/{product_id}
update_product(product_id, product, admin_token) ==
    LET obj_id == ObjectId(product_id)
    IN  /\ UNCHANGED <<dbConnected, orders, now>>
        /\ IF ~dbConnected
           THEN resp' = Response("update_product", 503) /\ UNCHANGED products
           ELSE IF ~IsAdmin(admin_token)
           THEN resp' = Response("update_product", 401) /\ UNCHANGED products
           ELSE IF obj_id = InvalidId
           THEN resp' = Response("update_product", 400) /\ UNCHANGED products
           ELSE /\ products' = UpdateOne(products, obj_id, product)
                /\ resp' = Response("update_product",
                                    IF obj_id \in DOMAIN products THEN 200 ELSE 404)

\* db.products.insert_one(doc): the store issues a new ObjectId.
InsertProduct(coll, oid, doc) ==
    [id \in DOMAIN coll \cup {oid} |-> IF id = oid THEN doc ELSE coll[id]]

\* db.products.delete_one({"_id": oid})
DeleteOne(coll, oid) == [id \in DOMAIN coll \ {oid} |-> coll[id]]

\* POST /api/admin/products
create_product(product, admin_token) ==
    /\ UNCHANGED <<dbConnected, orders, now, carrier, auth, carts, threads>>
    /\ IF ~dbConnected
       THEN resp' = Response("create_product", 503) /\ UNCHANGED <<products, productSeq>>
       ELSE IF ~IsAdmin(admin_token)
       THEN resp' = Response("create_product", 401) /\ UNCHANGED <<products, productSeq>>
       ELSE /\ productSeq' = productSeq + 1
            /\ products' = InsertProduct(products, productSeq + 1,
                                          [base_price |-> product.base_price])
            /\ resp' = Response("create_product", 200)

\* DELETE /api/admin/products/{product_id}
delete_product(product_id, admin_token) ==
    LET obj_id == ObjectId(product_id)
    IN  /\ UNCHANGED <<dbConnected, orders, now, productSeq, carrier, auth, carts, threads>>
        /\ IF ~dbConnected
           THEN resp' = Response("delete_product", 503) /\ UNCHANGED products
           ELSE IF ~IsAdmin(admin_token)
           THEN resp' = Response("delete_product", 401) /\ UNCHANGED products
           ELSE IF obj_id = InvalidId
           THEN resp' = Response("delete_product", 400) /\ UNCHANGED products
           ELSE /\ products' = DeleteOne(products, obj_id)
                /\ resp' = Response("delete_product",
                                    IF obj_id \in DOMAIN products THEN 200 ELSE 404)

\* GET /api/admin/orders
get_all_orders(admin_token) ==
    /\ UNCHANGED <<dbConnected, products, orders, now, productSeq, carrier, auth, carts, threads>>
    /\ IF ~dbConnected
       THEN resp' = Response("get_all_orders", 503)
       ELSE IF ~IsAdmin(admin_token)
       THEN resp' = Response("get_all_orders", 401)
       ELSE resp' = [op |-> "get_all_orders", code |-> 200,
                     amount |-> Cardinality(DOMAIN orders), body |-> JsonBody(200)]

\* def get_stock_status(stock)
get_stock_status_LowUpToFour(stock) ==
    IF stock <= 0
    THEN [status |-> "Out of Stock", display |-> "Out of Stock",
          in_stock |-> FALSE, is_low |-> FALSE]
    ELSE IF stock <= 4
    THEN [status |-> "Low Stock", display |-> "Low Stock - Hurry!",
          in_stock |-> TRUE, is_low |-> TRUE]
    ELSE [status |-> "In Stock", display |-> "In Stock",
          in_stock |-> TRUE, is_low |-> FALSE]

get_stock_status(stock) ==
    IF stock <= 0
    THEN [status |-> "Out of Stock", display |-> "Out of Stock",
          in_stock |-> FALSE, is_low |-> FALSE]
    ELSE IF stock <= 3
    THEN [status |-> "Low Stock", display |-> "Low Stock - Hurry!",
          in_stock |-> TRUE, is_low |-> TRUE]
    ELSE [status |-> "In Stock", display |-> "In Stock",
          in_stock |-> TRUE, is_low |-> FALSE]

\* dict.get(key, default) and dict.pop(key, None)
Get(d, key, default) == IF key \in DOMAIN d THEN d[key] ELSE default
Pop(d, key) == [f \in DOMAIN d \ {key} |-> d[f]]

\* total_stock += sku.get("stock", 0), over product["skus"]
RECURSIVE TotalStock(_, _, _)
TotalStock(skus, i, total_stock) ==
    IF i > Len(skus) THEN total_stock
    ELSE TotalStock(skus, i + 1, total_stock + Get(skus[i], "stock", 0))

\* The formatting that forgets the stock of the SKUs.
FormatProduct_KeepsSkuStock(oid, product) ==
    LET stock_status == get_stock_status(TotalStock(product.skus, 1, 0))
        kept == DOMAIN product \ {"stock"}
    IN  [f \in kept \cup {"_id", "stock_status", "in_stock"} |->
            CASE f = "_id" -> OidStr(oid)
              [] f = "stock_status" -> stock_status
              [] f = "in_stock" -> stock_status.in_stock
              [] OTHER -> product[f]]

\* The formatting of one product for the storefront: _id as a string,
\* stock_status and in_stock from the summed SKU stock, and the stock keys
\* of the product and of every SKU removed.
FormatProduct(oid, product) ==
    LET stock_status == get_stock_status(TotalStock(product.skus, 1, 0))
        kept == DOMAIN product \ {"stock"}
    IN  [f \in kept \cup {"_id", "stock_status", "in_stock"} |->
            CASE f = "_id" -> OidStr(oid)
              [] f = "stock_status" -> stock_status
              [] f = "in_stock" -> stock_status.in_stock
              [] f = "skus" -> [i \in 1..Len(product.skus) |-> Pop(product.skus[i], "stock")]
              [] OTHER -> product[f]]

\* db.products.find(query).sort(sort_criteria): newest first (ObjectIds
\* grow with the time of creation), or by base_price upwards.
RECURSIVE SortedOids(_, _)
SortedOids(coll, sort) ==
    IF DOMAIN coll = {} THEN << >>
    ELSE LET first == CHOOSE id \in DOMAIN coll : \A other \in DOMAIN coll :
                        IF sort = "price_low"
                        THEN \/ coll[id].base_price < coll[other].base_price
                             \/ coll[id].base_price = coll[other].base_price /\ id <= other
                        ELSE id >= other
         IN  <<first>> \o SortedOids(Pop(coll, first), sort)

\* The body of GET /api/products over a catalog.
ProductsBody(coll, sort) ==
    LET found == SortedOids(coll, sort)
    IN  [success |-> TRUE, count |-> Len(found),
         products |-> [i \in 1..Len(found) |-> FormatProduct(found[i], coll[found[i]])]]

\* The body of GET /api/products/{product_id} for a document that exists;
\* the product has no reviews.
ProductBody(oid, product) ==
    [success |-> TRUE,
     product |-> [f \in DOMAIN FormatProduct(oid, product) \cup {"reviews"} |->
                    IF f = "reviews" THEN << >> ELSE FormatProduct(oid, product)[f]]]

\* GET /api/products
get_products(sort) ==
    /\ UNCHANGED <<dbConnected, products, orders, now, productSeq, carrier, auth, carts, threads>>
    /\ IF ~dbConnected
       THEN resp' = Response("get_products", 503)
       ELSE resp' = [op |-> "get_products", code |-> 200, amount |-> Unset,
                     body |-> ProductsBody(products, sort)]

\* GET /api/products/{product_id}
get_product(product_id) ==
    LET obj_id == ObjectId(product_id)
    IN  /\ UNCHANGED <<dbConnected, products, orders, now, productSeq, carrier, auth, carts, threads>>
        /\ IF ~dbConnected
           THEN resp' = Response("get_product", 503)
           ELSE IF obj_id = InvalidId
           THEN resp' = Response("get_product", 400)
           ELSE IF obj_id \notin DOMAIN products
           THEN resp' = Response("get_product", 404)
           ELSE resp' = [op |-> "get_product", code |-> 200, amount |-> Unset,
                         body |-> ProductBody(obj_id, products[obj_id])]

\* The except-Exception branch of create_order: a find_one that raises is
\* caught by the bare except of the item loop (400), an insert_one that
\* raises by the handler's own except (500); nothing has been written.
create_order_raises(authorization, body, call) ==
    LET order_dict == OrderDict(body)
        sum == SumItems(products, order_dict.items, 1, 0)
    IN  /\ dbConnected
        /\ authorization # ""
        /\ \/ call = "find_one" /\ Len(order_dict.items) > 0
           \/ call = "insert_one" /\ sum.ok
        /\ resp' = Response("create_order", IF call = "find_one" THEN 400 ELSE 500)
        /\ UNCHANGED <<dbConnected, products, orders, now>>

\* The except-Exception branch of verify_payment: update_one raises.
verify_payment_raises(payment_data) ==
    /\ dbConnected
    /\ ObjectId(payment_data.order_id) # InvalidId
    /\ resp' = Response("verify_payment", 500)
    /\ UNCHANGED <<dbConnected, products, orders, now>>

\* The except-Exception branch of update_order_status: update_one raises.
update_order_status_raises(order_id, status_data, admin_token) ==
    /\ dbConnected
    /\ IsAdmin(admin_token)
    /\ ObjectId(order_id) # InvalidId
    /\ status_data.status # ""
    /\ resp' = Response("update_order_status", 500)
    /\ UNCHANGED <<dbConnected, products, orders, now>>

\* ------------------------------------------------------- specification

CreateOrderRequests ==
    [user_id : Users, items : ItemLists, total_amount : ClaimedTotals]

PricedOrderRequests ==
    [user_id : Users, items : PricedItemLists, total_amount : ClaimedTotals]

PaymentData ==
    {d \in [order_id : OrderIdInputs, razorpay_payment_id : PaymentIds,
            razorpay_signature : Signatures] :
        /\ d.razorpay_signature.order = d.order_id
        /\ d.razorpay_signature.payment = d.razorpay_payment_id
        /\ \/ d.razorpay_signature.key = "rzp_secret"
           \/ d.order_id = OidStr(1)}

StatusData == [status : AdminStatuses]

ProductBodies == [base_price : Prices]

DoCreateOrder ==
    /\ \E a \in Auths, b \in CreateOrderRequests : create_order(a, b)
    /\ Cardinality(DOMAIN orders') <= MaxOrders
    /\ UNCHANGED aux

DoCreatePricedOrder ==
    /\ \E a \in Auths, b \in PricedOrderRequests : create_order(a, b)
    /\ Cardinality(DOMAIN orders') <= MaxPricedOrders
    /\ UNCHANGED aux

DoVerifyPayment ==
    /\ \E d \in PaymentData : verify_payment(d)
    /\ UNCHANGED aux

\* The admin status requests: every id and body with the credential, and
\* one request without it (the credential is looked at before the rest).
StatusUpdateRequests ==
    {r \in [order_id : OrderIdInputs \ {AbsentId}, status_data : StatusData,
            admin_token : AdminTokens] :
        \/ r.admin_token = ADMIN_TOKEN
        \/ r.order_id = OidStr(1) /\ r.status_data.status = "shipped"}

DoUpdateOrderStatus ==
    /\ \E r \in StatusUpdateRequests :
          update_order_status(r.order_id, r.status_data, r.admin_token)
    /\ UNCHANGED aux

DoUpdateProduct ==
    /\ \E id \in ProductIdInputs, p \in ProductBodies, t \in AdminTokens :
          update_product(id, p, t)
    /\ UNCHANGED aux

Next ==
    \/ Tick
    \/ DoCreateOrder
    \/ DoVerifyPayment
    \/ DoUpdateOrderStatus

Spec == Init /\ [][Next]_vars

NextPrice ==
    \/ DoUpdateProduct
    \/ DoCreatePricedOrder

SpecPrice == Init /\ [][NextPrice]_vars

\* ---- SpecAdmin

\* The orders the admin handlers act on: one customer, one cart.
AdminOrderRequests ==
    {r \in CreateOrderRequests : r.items[1].product_id = OidStr(1)}

DoAdminCreateOrder ==
    /\ \E b \in AdminOrderRequests : create_order("tok", b)
    /\ Cardinality(DOMAIN orders') <= MaxAdminOrders
    /\ UNCHANGED aux

AdminOrderIdInputs ==
    {OidStr(n) : n \in 1..(MaxAdminOrders + 1)} \cup {MalformedId}

\* The admin bodies of SpecAdmin: no status or "shipped"; one price.
AdminStatusData == {s \in StatusData : s.status # "pending"}
AdminProductBodies == {p \in ProductBodies : p.base_price = 4996}

DoAdminUpdateOrderStatus ==
    /\ \E id \in AdminOrderIdInputs,
          s \in AdminStatusData, t \in AnyAdminTokens :
          update_order_status(id, s, t)
    /\ UNCHANGED aux

DoGetAllOrders ==
    \E t \in AnyAdminTokens : get_all_orders(t)

DoCreateProduct ==
    /\ \E p \in AdminProductBodies, t \in AnyAdminTokens : create_product(p, t)
    /\ productSeq' <= MaxProducts

DoAdminUpdateProduct ==
    /\ \E id \in AdminProductIdInputs, p \in AdminProductBodies, t \in AnyAdminTokens :
          update_product(id, p, t)
    /\ UNCHANGED aux

DoDeleteProduct ==
    \E id \in AdminProductIdInputs, t \in AnyAdminTokens : delete_product(id, t)

NextAdmin ==
    \/ DoAdminCreateOrder
    \/ DoAdminUpdateOrderStatus
    \/ DoGetAllOrders
    \/ DoCreateProduct
    \/ DoAdminUpdateProduct
    \/ DoDeleteProduct

SpecAdmin == Init /\ [][NextAdmin]_vars

\* ---- SpecFault

DoStoreCreateOrder ==
    /\ \E a \in Auths, b \in CreateOrderRequests : create_order(a, b)
    /\ Cardinality(DOMAIN orders') <= MaxStoreOrders
    /\ UNCHANGED aux

StoreOrderIdInputs ==
    {OidStr(n) : n \in 1..(MaxStoreOrders + 1)} \cup {MalformedId}

StorePaymentData ==
    {d \in PaymentData : d.order_id \in StoreOrderIdInputs \cup {AbsentId}}

DoStoreVerifyPayment ==
    /\ \E d \in StorePaymentData : verify_payment(d)
    /\ UNCHANGED aux

DoStoreUpdateOrderStatus ==
    /\ \E id \in StoreOrderIdInputs, s \in StatusData, t \in AdminTokens :
          update_order_status(id, s, t)
    /\ UNCHANGED aux

DoCreateOrderRaises ==
    /\ \E a \in Auths, b \in CreateOrderRequests, c \in {"find_one", "insert_one"} :
          create_order_raises(a, b, c)
    /\ UNCHANGED aux

DoVerifyPaymentRaises ==
    /\ \E d \in StorePaymentData : verify_payment_raises(d)
    /\ UNCHANGED aux

DoUpdateOrderStatusRaises ==
    /\ \E id \in StoreOrderIdInputs, s \in StatusData, t \in AdminTokens :
          update_order_status_raises(id, s, t)
    /\ UNCHANGED aux

NextFault ==
    \/ DoStoreCreateOrder
    \/ DoStoreVerifyPayment
    \/ DoStoreUpdateOrderStatus
    \/ DoCreateOrderRaises
    \/ DoVerifyPaymentRaises
    \/ DoUpdateOrderStatusRaises

SpecFault == Init /\ [][NextFault]_vars

\* ---- SpecStock

StockLevels == (0 - 1)..MaxStock

\* The SKU lists an admin writes: none, one or two SKUs, each with a stock.
SkuOptions == [sku : {"SKU"}, stock : StockLevels]
SkuLists ==
    {<< >>} \cup {<<a>> : a \in SkuOptions} \cup {<<a, b>> : a, b \in SkuOptions}

StockProductBodies == [base_price : {500000}, skus : SkuLists]

\* The catalog of SpecStock: a product as the admin handlers write it, and
\* a document that was put into the collection by hand, with a stock of its
\* own and a SKU without one.
InitStock ==
    /\ dbConnected \in BOOLEAN
    /\ products = (1 :> [base_price |-> 500000, inStock |-> TRUE,
                          skus |-> <<[sku |-> "SKU", stock |-> MaxStock]>>]
                 @@ 2 :> [base_price |-> 4996, inStock |-> TRUE, stock |-> 1,
                          skus |-> <<[sku |-> "SKU"]>>])
    /\ orders = << >>
    /\ now = 0
    /\ resp = Response("none", 0)
    /\ productSeq = Cardinality(ProductOids)
    /\ carrier = NoCarrier
    /\ auth = NoAuth
    /\ carts = NoCarts
    /\ threads = NoThreads

StockProductIdInputs == {OidStr(1), OidStr(3), MalformedId}

DoSetStock ==
    /\ \E id \in StockProductIdInputs, p \in StockProductBodies, t \in AdminTokens :
          update_product(id, p, t)
    /\ UNCHANGED aux

DoGetProducts ==
    \E sort \in {"newest", "price_low"} : get_products(sort)

DoGetProduct ==
    \E id \in ProductIdInputs : get_product(id)

NextStock == DoSetStock \/ DoGetProducts \/ DoGetProduct

SpecStock == InitStock /\ [][NextStock]_vars

\* ---- SpecCarrier: the carrier client and the handlers that use it

\* The flat shipping cost a quotation falls back to, and the rates the
\* carrier quotes, in rupees.
FlatShippingCost == 99
CourierLists ==
    {<<[name |-> "A", rate |-> 45], [name |-> "B", rate |-> 60]>>,
     <<[name |-> "A", rate |-> 60], [name |-> "B", rate |-> 45]>>,
     <<[name |-> "A", rate |-> 45], [name |-> "B", rate |-> 45]>>}

\* What a call to the carrier can come back with.
LoginOutcomes == {"ok", "failed"}
CallOutcomes == {"ok", "unauthorized", "timeout", "non200"}
QuoteOutcomes == CallOutcomes \cup {"empty"}

\* Token login: a fresh token is cached, or there is no token.
FetchToken(c, outcome) ==
    IF outcome = "ok"
    THEN [c EXCEPT !.token = c.logins + 1, !.logins = c.logins + 1,
                   !.trace = Append(@, [call |-> "login", outcome |-> "ok",
                                        token |-> c.logins + 1])]
    ELSE [c EXCEPT !.token = 0,
                   !.trace = Append(@, [call |-> "login", outcome |-> "failed",
                                        token |-> 0])]

\* The access token: the cached one while it is fresh, else a login.
GetToken(c, outcome) == IF c.token # 0 THEN c ELSE FetchToken(c, outcome)

\* One bearer-token-authenticated call to an endpoint of the carrier.
CarrierCall(c, endpoint, outcome) ==
    [c EXCEPT !.trace = Append(@, [call |-> endpoint, outcome |-> outcome,
                                   token |-> c.token])]

\* The serviceability call that repeats after every failure.
Serviceability_RetriesAnyFailure(c, env) ==
    LET c1 == GetToken([c EXCEPT !.trace = << >>], env.login1)
        c2 == CarrierCall(c1, "serviceability", env.out1)
        c3 == CarrierCall(c2, "serviceability", env.out2)
    IN  IF c1.token = 0 THEN [carrier |-> c1, outcome |-> "no_token"]
        ELSE IF env.out1 \in {"ok", "empty"} THEN [carrier |-> c2, outcome |-> env.out1]
        ELSE [carrier |-> c3, outcome |-> env.out2]

\* The serviceability call of a quotation: on an authorization failure the
\* cached token is invalidated, a fresh one fetched and the call repeated
\* once; every other outcome ends the attempt.
Serviceability(c, env) ==
    LET c1 == GetToken([c EXCEPT !.trace = << >>], env.login1)
        c2 == CarrierCall(c1, "serviceability", env.out1)
        c3 == FetchToken([c2 EXCEPT !.token = 0], env.login2)
        c4 == CarrierCall(c3, "serviceability", env.out2)
    IN  IF c1.token = 0 THEN [carrier |-> c1, outcome |-> "no_token"]
        ELSE IF env.out1 # "unauthorized" THEN [carrier |-> c2, outcome |-> env.out1]
        ELSE IF c3.token = 0 THEN [carrier |-> c3, outcome |-> "no_token"]
        ELSE [carrier |-> c4, outcome |-> env.out2]

\* The cheapest courier; among equal rates the first in the response.
MinCourier(couriers) ==
    couriers[CHOOSE i \in 1..Len(couriers) :
               \A j \in 1..Len(couriers) :
                 /\ couriers[i].rate <= couriers[j].rate
                 /\ j < i => couriers[j].rate > couriers[i].rate]

\* A quotation that passes a carrier failure on to the caller.
QuoteBody_Propagates(ok, couriers) ==
    IF ok /\ couriers # << >>
    THEN [code |-> 200, success |-> TRUE,
          shipping_cost |-> MinCourier(couriers).rate,
          courier |-> MinCourier(couriers).name]
    ELSE [code |-> 500, success |-> FALSE, shipping_cost |-> Unset,
          courier |-> "none"]

\* The result of a quotation: the cheapest courier, or the flat cost.
QuoteBody(ok, couriers) ==
    IF ok /\ couriers # << >>
    THEN [code |-> 200, success |-> TRUE,
          shipping_cost |-> MinCourier(couriers).rate,
          courier |-> MinCourier(couriers).name]
    ELSE [code |-> 200, success |-> FALSE, shipping_cost |-> FlatShippingCost,
          courier |-> "Standard"]

\* POST /shipping-rates: a postal code that is not six digits is a
\* validation error and no call is made; a response with status 200 lists
\* the couriers ("empty": it lists none).
quote_shipping(postal_ok, env) ==
    /\ UNCHANGED <<dbConnected, products, orders, now, productSeq, auth, carts, threads>>
    /\ IF ~postal_ok
       THEN /\ resp' = Response("quote_shipping", 400)
            /\ carrier' = [carrier EXCEPT !.trace = << >>]
       ELSE LET r == Serviceability(carrier, env)
                q == QuoteBody(r.outcome \in {"ok", "empty"},
                               IF r.outcome = "ok" THEN env.couriers ELSE << >>)
            IN  /\ carrier' = r.carrier
                /\ resp' = [op |-> "quote_shipping", code |-> q.code,
                            amount |-> q.shipping_cost,
                            body |-> [success |-> q.success,
                                      shipping_cost |-> q.shipping_cost,
                                      courier |-> q.courier]]

\* The carrier identifiers of an order.
Identifiers(o) ==
    [shipment_id |-> o.shipment_id, awb_code |-> o.awb_code,
     courier_name |-> o.courier_name, tracking_url |-> o.tracking_url]

\* The idempotence check of a booking: a tracking number is recorded.
AlreadyBooked(o) == o.awb_code # Unset

\* POST /admin/orders/{order_id}/book-courier
book_courier(order_id, admin_token, env) ==
    LET obj_id == ObjectId(order_id)
        c1 == GetToken([carrier EXCEPT !.trace = << >>], env.login1)
        c2 == CarrierCall(c1, "create_order", env.out1)
        c3 == [c2 EXCEPT !.shipments = c2.shipments + 1]
        c4 == CarrierCall(c3, "assign_awb", env.out2)
        shipment_id == c3.shipments
        awb == IF env.out2 = "ok" THEN shipment_id ELSE Unset
        \* the courier is known once the AWB is assigned; couriers by number
        fields == [shipment_id |-> shipment_id, awb_code |-> awb,
                   courier_name |-> IF awb = Unset THEN Unset ELSE 1,
                   tracking_url |-> awb, order_status |-> "processing"]
        Fail(code, c) ==
            /\ resp' = Response("book_courier", code)
            /\ carrier' = c
            /\ UNCHANGED orders
    IN  /\ UNCHANGED <<dbConnected, products, now, productSeq, auth, carts, threads>>
        /\ IF ~dbConnected THEN Fail(503, carrier)
           ELSE IF ~IsAdmin(admin_token) THEN Fail(401, carrier)
           ELSE IF obj_id \notin DOMAIN orders
           THEN Fail(IF obj_id = InvalidId THEN 400 ELSE 404, carrier)
           ELSE IF AlreadyBooked(orders[obj_id])
           THEN /\ resp' = [op |-> "book_courier", code |-> 200, amount |-> Unset,
                            body |-> [success |-> TRUE, order_id |-> obj_id,
                                      booking |-> Identifiers(orders[obj_id])]]
                /\ carrier' = [carrier EXCEPT !.trace = << >>]
                /\ UNCHANGED orders
           ELSE IF c1.token = 0 THEN Fail(500, c1)
           ELSE IF env.out1 # "ok" THEN Fail(500, c2)
           ELSE /\ orders' = UpdateOne(orders, obj_id, fields)
                /\ carrier' = c4
                /\ resp' = [op |-> "book_courier", code |-> 200, amount |-> Unset,
                            body |-> [success |-> TRUE, order_id |-> obj_id,
                                      booking |-> Identifiers(orders'[obj_id])]]

\* A lookup that leaves the payment status out of its filter.
Visible_AnyPayment(o) == TRUE

\* The filter of the tracking lookup: only paid orders are visible.
Visible(o) == o.payment_status = "paid"

\* The order an identifier names: the internal id when it has that format,
\* else the gateway order id; NoOid when there is none.
FindOrder(coll, ident) ==
    IF ident.kind = "oid" /\ ident.n \in DOMAIN coll /\ Visible(coll[ident.n])
    THEN ident.n
    ELSE IF \E id \in DOMAIN coll :
              coll[id].gateway_order_id = ident /\ Visible(coll[id])
    THEN CHOOSE id \in DOMAIN coll :
              coll[id].gateway_order_id = ident /\ Visible(coll[id])
    ELSE NoOid

\* cancelled is step 0, confirmed 1, processing 2, shipped 3, delivered 4;
\* any other status is shown at step 1.
StatusStep(order_status) ==
    CASE order_status = "cancelled" -> 0
      [] order_status = "processing" -> 2
      [] order_status = "shipped" -> 3
      [] order_status = "delivered" -> 4
      [] OTHER -> 1

\* GET /orders/track/{order_id}
track_order(ident) ==
    LET found == FindOrder(orders, ident)
    IN  /\ UNCHANGED <<dbConnected, products, orders, now, productSeq, auth, carts, threads>>
        /\ carrier' = [carrier EXCEPT !.trace = << >>]
        /\ IF ~dbConnected THEN resp' = Response("track_order", 503)
           ELSE IF found = NoOid THEN resp' = Response("track_order", 404)
           ELSE resp' = [op |-> "track_order", code |-> 200, amount |-> Unset,
                         body |-> [success |-> TRUE, order_id |-> found,
                                   order_status |-> orders[found].order_status,
                                   status_step |-> StatusStep(orders[found].order_status),
                                   tracking |-> Identifiers(orders[found])]]

\* The freshness window of the cached token lapses.
TokenExpires ==
    /\ carrier.token # 0
    /\ carrier' = [carrier EXCEPT !.token = 0]
    /\ UNCHANGED <<dbConnected, products, orders, now, resp, productSeq, auth, carts, threads>>

GatewayId(n) == [kind |-> "gateway", n |-> n]

\* A paid, confirmed order and an order whose payment is pending.
CarrierOrder(n, payment_status, order_status) ==
    [gateway_order_id |-> GatewayId(n), payment_status |-> payment_status,
     order_status |-> order_status, shipment_id |-> Unset, awb_code |-> Unset,
     courier_name |-> Unset, tracking_url |-> Unset]

InitCarrier ==
    /\ dbConnected \in BOOLEAN
    /\ products = [id \in ProductOids |-> [base_price |-> 500000]]
    /\ orders = (1 :> CarrierOrder(1, "paid", "confirmed")
               @@ 2 :> CarrierOrder(2, "pending", "pending"))
    /\ now = 0
    /\ resp = Response("none", 0)
    /\ productSeq = Cardinality(ProductOids)
    /\ carrier = NoCarrier
    /\ auth = NoAuth
    /\ carts = NoCarts
    /\ threads = NoThreads

\* What the carrier answers during one quotation; the second login and
\* call are only made after an authorization failure.
QuoteEnvs ==
    {e \in [login1 : LoginOutcomes, out1 : QuoteOutcomes,
            login2 : LoginOutcomes, out2 : QuoteOutcomes, couriers : CourierLists] :
        e.out1 # "unauthorized" => (e.login2 = "ok" /\ e.out2 = "ok")}

BookEnvs == [login1 : LoginOutcomes, out1 : CallOutcomes, out2 : CallOutcomes]

TrackInputs ==
    {OidStr(n) : n \in 1..3} \cup {GatewayId(n) : n \in 1..3} \cup {MalformedId}

DoQuoteShipping ==
    /\ \E postal_ok \in BOOLEAN, env \in QuoteEnvs : quote_shipping(postal_ok, env)
    /\ carrier'.logins <= MaxLogins

DoBookCourier ==
    /\ \E id \in {OidStr(1), OidStr(3), MalformedId}, t \in AdminTokens, env \in BookEnvs :
          book_courier(id, t, env)
    /\ carrier'.logins <= MaxLogins
    /\ carrier'.shipments <= MaxShipments

DoTrackOrder ==
    \E ident \in TrackInputs : track_order(ident)

NextCarrier == DoQuoteShipping \/ DoBookCourier \/ DoTrackOrder \/ TokenExpires

SpecCarrier == InitCarrier /\ [][NextCarrier]_vars

\* ---- SpecCart: the cart and the order form against a shrinking catalog

\* user_id = authorization.split(" ")[1] if " " in authorization
\*           else authorization
UserIdOf(authorization) ==
    IF authorization = "Bearer u1" THEN "u1" ELSE authorization

\* update_one({"user_id": user_id}, {"$push": {"items": item}}, upsert=True)
PushItem(coll, user_id, item) ==
    [u \in DOMAIN coll \cup {user_id} |->
        IF u = user_id
        THEN Append(IF u \in DOMAIN coll THEN coll[u] ELSE << >>, item)
        ELSE coll[u]]

\* The try block of add_to_cart: ObjectId() accepts the id and find_one
\* returns a product. A malformed id raises inside the block, and so does
\* the 404 of a missing product; the bare except answers both.
ProductFound(catalog, product_id) ==
    LET obj_id == ObjectId(product_id)
    IN  obj_id # InvalidId /\ obj_id \in DOMAIN catalog

\* POST /api/cart
add_to_cart(cart_item, authorization) ==
    LET user_id == UserIdOf(authorization)
        cart_item_dict == [product_id |-> cart_item.product_id,
                           quantity |-> cart_item.quantity,
                           addedAt |-> now]
    IN  /\ UNCHANGED <<dbConnected, products, orders, now, productSeq, carrier,
                       auth, threads>>
        /\ IF ~dbConnected
           THEN resp' = Response("add_to_cart", 503) /\ UNCHANGED carts
           ELSE IF authorization = ""
           THEN resp' = Response("add_to_cart", 401) /\ UNCHANGED carts
           ELSE IF ~ProductFound(products, cart_item.product_id)
           THEN resp' = Response("add_to_cart", 400) /\ UNCHANGED carts
           ELSE /\ carts' = PushItem(carts, user_id, cart_item_dict)
                /\ resp' = Response("add_to_cart", 200)

CartAuths == {"", "u1", "Bearer u1"}
CartItems == [product_id : ProductIdInputs, quantity : {1, 2}]
CartOrderRequests ==
    [user_id : Users, items : {<<i>> : i \in CartItems},
     total_amount : ClaimedTotals]

DoAddToCart ==
    /\ \E c \in CartItems, a \in CartAuths : add_to_cart(c, a)
    /\ \A u \in DOMAIN carts' : Len(carts'[u]) <= MaxCartLen

DoCartCreateOrder ==
    /\ \E a \in Auths, b \in CartOrderRequests : create_order(a, b)
    /\ Cardinality(DOMAIN orders') <= MaxCartOrders
    /\ UNCHANGED aux

DoCartDeleteProduct ==
    \E n \in ProductOids : delete_product(OidStr(n), ADMIN_TOKEN)

NextCart == DoAddToCart \/ DoCartCreateOrder \/ DoCartDeleteProduct

SpecCart == Init /\ [][NextCart]_vars

\* ---- SpecOtp: one-time-password login, one request at a time

\* data.get("email"), data.get("phone"), data.get("otp"): "" is a missing
\* (or empty) field. The submitted code is its text and whether the client
\* padded it with blanks (the first code, padded, stands for all of these).
Emails == {"a@besties.in"}
Phones == {"9000000001"}
Codes == {"111111", "222222"}
SendData == [email : Emails \cup {""}, phone : Phones \cup {""}]
OtpInputs ==
    [text : Codes \cup {""}, padded : {FALSE}]
        \cup {[text |-> "111111", padded |-> TRUE]}
VerifyData == [email : Emails \cup {""}, phone : Phones \cup {""}, otp : OtpInputs]

\* str(data.get("otp", "")).strip()
Strip(otp) == otp.text

\* identifier = email if email else phone
Identifier(data) == IF data.email # "" THEN data.email ELSE data.phone

\* login_method = "email" if email else "phone"
LoginMethod(data) == IF data.email # "" THEN "email" ELSE "phone"

\* An OTP record that lives one minute.
OtpRecord_OneMinute(data, otp, t) ==
    [identifier |-> Identifier(data), login_method |-> LoginMethod(data),
     otp |-> otp, createdAt |-> t, expiresAt |-> t + 60]

\* otp_record of send_otp
OtpRecord(data, otp, t) ==
    [identifier |-> Identifier(data), login_method |-> LoginMethod(data),
     otp |-> otp, createdAt |-> t, expiresAt |-> t + OTP_TTL]

\* db.otps.delete_many({"identifier": identifier})
DeleteMany(a, identifier) ==
    [a EXCEPT !.otps =
        [id \in {i \in DOMAIN a.otps : a.otps[i].identifier # identifier}
            |-> a.otps[id]]]

\* db.otps.insert_one(otp_record): the record goes in under the next _id;
\* it has granted no login yet.
InsertOtp(a, otp_record) ==
    LET oid == a.issued + 1
    IN  [a EXCEPT !.otps = [id \in DOMAIN a.otps \cup {oid} |->
                               IF id = oid THEN otp_record ELSE a.otps[id]],
                  !.issued = oid,
                  !.logins = Append(a.logins, 0)]

\* db.otps.delete_one({"_id": otp_record["_id"]})
DeleteOtp(a, oid) == [a EXCEPT !.otps = DeleteOne(a.otps, oid)]

\* db.otps.find_one({"identifier": identifier}): the records it may return
\* (the store promises no order among several matches), NoOid for None.
FindOtps(a, identifier) ==
    LET ids == {i \in DOMAIN a.otps : a.otps[i].identifier = identifier}
    IN  IF ids = {} THEN {NoOid} ELSE ids

\* datetime.utcnow().timestamp() > otp_record.get("expiresAt", 0)
Expired(otp_record, t) == t > otp_record.expiresAt

\* A wrong-code branch that also discards the record.
WrongCode_Deletes(a, oid) == DeleteOtp(a, oid)

\* The wrong-code branch of verify_otp raises and writes nothing.
WrongCode(a, oid) == a

\* The user documents {login_method: identifier} matches.
MatchUsers(users, login_method, identifier) ==
    {u \in DOMAIN users :
        /\ login_method \in DOMAIN users[u]
        /\ users[u][login_method] = identifier}

\* db.users.find_one({login_method: identifier}): its _id, NoOid for None.
FindUser(users, login_method, identifier) ==
    LET ids == MatchUsers(users, login_method, identifier)
    IN  IF ids = {} THEN NoOid ELSE CHOOSE u \in ids : \A v \in ids : u <= v

\* user_data = {login_method: identifier, "lastLogin": datetime.utcnow()}
UserData(login_method, identifier, t) ==
    IF login_method = "email"
    THEN [email |-> identifier, lastLogin |-> t]
    ELSE [phone |-> identifier, lastLogin |-> t]

\* A users collection without its unique indexes: an upsert that matched
\* nothing inserts, whatever another upsert has inserted meanwhile.
WriteUser_NoIndex(users, matched, login_method, identifier, t) ==
    LET target == IF matched # NoOid THEN matched ELSE InsertedId(users)
    IN  [u \in DOMAIN users \cup {target} |->
            IF u = target THEN UserData(login_method, identifier, t)
            ELSE users[u]]

\* The write of db.users.update_one(..., {"$set": user_data}, upsert=True)
\* after its query matched the document `matched` (NoOid: none). The unique
\* sparse indexes on email and on phone let an insert through only when no
\* document holds the key; the upsert then updates that document instead.
WriteUser(users, matched, login_method, identifier, t) ==
    LET held == FindUser(users, login_method, identifier)
        target == IF matched # NoOid THEN matched
                  ELSE IF held # NoOid THEN held
                  ELSE InsertedId(users)
    IN  [u \in DOMAIN users \cup {target} |->
            IF u = target THEN UserData(login_method, identifier, t)
            ELSE users[u]]

\* The successful end of verify_otp: the upsert, and one more login granted
\* by the OTP record.
Login(a, oid, matched, login_method, identifier, t) ==
    [a EXCEPT !.users = WriteUser(a.users, matched, login_method, identifier, t),
              !.logins[oid] = @ + 1]

\* The success response of verify_otp.
LoginResponse(a, data) ==
    [op |-> "verify_otp", code |-> 200, amount |-> Unset,
     body |-> [success |-> TRUE,
               user |-> [id |-> FindUser(a.users, LoginMethod(data), Identifier(data)),
                         email |-> IF LoginMethod(data) = "email" THEN data.email ELSE "",
                         phone |-> IF LoginMethod(data) = "phone" THEN data.phone ELSE ""]]]

\* raise HTTPException(status_code=code, detail=detail)
Refusal(op, code, detail) ==
    [op |-> op, code |-> code, amount |-> Unset, body |-> [detail |-> detail]]

\* What no login handler touches.
shop == <<dbConnected, products, orders, now, productSeq, carrier, carts>>

\* POST /api/auth/send-otp; otp is what generate_otp() returned.
send_otp(data, otp) ==
    /\ UNCHANGED <<shop, threads>>
    /\ IF ~dbConnected
       THEN resp' = Response("send_otp", 503) /\ UNCHANGED auth
       ELSE IF data.email = "" /\ data.phone = ""
       THEN /\ resp' = Refusal("send_otp", 400, "Missing email or phone")
            /\ UNCHANGED auth
       ELSE /\ auth' = InsertOtp(DeleteMany(auth, Identifier(data)),
                                 OtpRecord(data, otp, now))
            /\ resp' = Response("send_otp", 200)

\* POST /api/auth/verify-otp
verify_otp(data) ==
    LET identifier == Identifier(data)
        login_method == LoginMethod(data)
        otp_entered == Strip(data.otp)
    IN  /\ UNCHANGED <<shop, threads>>
        /\ IF ~dbConnected
           THEN resp' = Response("verify_otp", 503) /\ UNCHANGED auth
           ELSE IF identifier = "" \/ otp_entered = ""
           THEN /\ resp' = Refusal("verify_otp", 400, "Missing email/phone or OTP")
                /\ UNCHANGED auth
           ELSE \E oid \in FindOtps(auth, identifier) :
                IF oid = NoOid
                THEN /\ resp' = Refusal("verify_otp", 401, "OTP not found or expired")
                     /\ UNCHANGED auth
                ELSE IF Expired(auth.otps[oid], now)
                THEN /\ auth' = DeleteOtp(auth, oid)
                     /\ resp' = Refusal("verify_otp", 401, "OTP has expired")
                ELSE IF auth.otps[oid].otp # otp_entered
                THEN /\ auth' = WrongCode(auth, oid)
                     /\ resp' = Refusal("verify_otp", 401, "Invalid OTP")
                ELSE /\ auth' = Login(DeleteOtp(auth, oid), oid,
                                      FindUser(auth.users, login_method, identifier),
                                      login_method, identifier, now)
                     /\ resp' = LoginResponse(auth', data)

\* The clock moves on by the life of an OTP, or by a second more.
Delays == {OTP_TTL, OTP_TTL + 1}

Elapse ==
    /\ \E d \in Delays : now + d <= MaxSeconds /\ now' = now + d
    /\ UNCHANGED <<dbConnected, products, orders, resp>>
    /\ UNCHANGED aux

DoSendOtp ==
    /\ \E data \in SendData, otp \in Codes : send_otp(data, otp)
    /\ auth'.issued <= MaxOtps

DoVerifyOtp ==
    \E data \in VerifyData : verify_otp(data)

NextOtp == DoSendOtp \/ DoVerifyOtp \/ Elapse

SpecOtp == Init /\ [][NextOtp]_vars

\* ---- SpecOtpRace: login requests running between each other's store calls

\* A request handler runs on a worker thread of its own; between two of its
\* calls to the store any other request may run. A thread is the request
\* body and the locals the rest of the handler reads; threads is the bag of
\* those in flight.
Spawn(ths, th) == ths (+) SetToBag({th})

Retire(ths, th) == ths (-) SetToBag({th})

\* How many send_otp requests are in flight.
Sending(ths) ==
    BagCardinality([th \in {t \in BagToSet(ths) : t.op = "send_otp"} |-> ths[th]])

\* send_otp up to and including delete_many.
send_otp_delete(data, otp) ==
    /\ UNCHANGED shop
    /\ IF ~dbConnected
       THEN resp' = Response("send_otp", 503) /\ UNCHANGED <<auth, threads>>
       ELSE IF data.email = "" /\ data.phone = ""
       THEN /\ resp' = Refusal("send_otp", 400, "Missing email or phone")
            /\ UNCHANGED <<auth, threads>>
       ELSE /\ auth' = DeleteMany(auth, Identifier(data))
            /\ threads' = Spawn(threads,
                 [op |-> "send_otp", pc |-> "deleted",
                  data |-> [email |-> data.email, phone |-> data.phone,
                            otp |-> [text |-> "", padded |-> FALSE]],
                  oid |-> NoOid, otp_record |-> OtpRecord(data, otp, now),
                  matched |-> NoOid, lastLogin |-> Unset])
            /\ UNCHANGED resp

\* send_otp from insert_one to its response.
send_otp_insert(th) ==
    /\ th.op = "send_otp"
    /\ auth' = InsertOtp(auth, th.otp_record)
    /\ resp' = Response("send_otp", 200)
    /\ threads' = Retire(threads, th)
    /\ UNCHANGED shop

\* verify_otp up to and including find_one.
verify_otp_find(data) ==
    /\ UNCHANGED <<shop, auth>>
    /\ IF ~dbConnected
       THEN resp' = Response("verify_otp", 503) /\ UNCHANGED threads
       ELSE IF Identifier(data) = "" \/ Strip(data.otp) = ""
       THEN /\ resp' = Refusal("verify_otp", 400, "Missing email/phone or OTP")
            /\ UNCHANGED threads
       ELSE \E oid \in FindOtps(auth, Identifier(data)) :
            IF oid = NoOid
            THEN /\ resp' = Refusal("verify_otp", 401, "OTP not found or expired")
                 /\ UNCHANGED threads
            ELSE /\ threads' = Spawn(threads,
                      [op |-> "verify_otp", pc |-> "found", data |-> data,
                       oid |-> oid, otp_record |-> auth.otps[oid],
                       matched |-> NoOid, lastLogin |-> Unset])
                 /\ UNCHANGED resp

\* verify_otp from the expiry test to the query of the upsert: the two
\* checks on the record find_one returned, delete_one, and the user
\* document the filter of update_one matches.
verify_otp_check(th) ==
    /\ th.op = "verify_otp"
    /\ th.pc = "found"
    /\ UNCHANGED shop
    /\ IF Expired(th.otp_record, now)
           THEN /\ auth' = DeleteOtp(auth, th.oid)
                /\ resp' = Refusal("verify_otp", 401, "OTP has expired")
                /\ threads' = Retire(threads, th)
           ELSE IF th.otp_record.otp # Strip(th.data.otp)
           THEN /\ auth' = WrongCode(auth, th.oid)
                /\ resp' = Refusal("verify_otp", 401, "Invalid OTP")
                /\ threads' = Retire(threads, th)
           ELSE /\ auth' = DeleteOtp(auth, th.oid)
                /\ threads' = Spawn(Retire(threads, th),
                      [th EXCEPT
                         !.pc = "matched",
                         !.matched = FindUser(auth.users, LoginMethod(th.data),
                                              Identifier(th.data)),
                         !.lastLogin = now])
                /\ UNCHANGED resp

\* verify_otp from the write of the upsert to its response. When the upsert
\* matched nothing and another request has inserted the key since, the
\* store either applies the write to that document (retried) or raises
\* DuplicateKeyError, which the handler answers with 500.
verify_otp_upsert(th, retried) ==
    LET login_method == LoginMethod(th.data)
        identifier == Identifier(th.data)
        duplicate == /\ th.matched = NoOid
                     /\ FindUser(auth.users, login_method, identifier) # NoOid
    IN  /\ th.op = "verify_otp"
        /\ th.pc = "matched"
        /\ UNCHANGED shop
        /\ threads' = Retire(threads, th)
        /\ IF duplicate /\ ~retried
           THEN resp' = Response("verify_otp", 500) /\ UNCHANGED auth
           ELSE /\ auth' = Login(auth, th.oid, th.matched, login_method,
                                 identifier, th.lastLogin)
                /\ resp' = LoginResponse(auth', th.data)

\* The requests of SpecOtpRace name an email or a phone number, not both;
\* generate_otp() draws the first code, the second is a wrong one.
RaceCodes == {"111111"}
RaceSendData == {d \in SendData : d.phone = "" \/ d.email = ""}
RaceVerifyData ==
    {d \in VerifyData :
        (d.phone = "" \/ d.email = "") /\ Identifier(d) # "" /\ ~d.otp.padded}

DoSendOtpDelete ==
    /\ \E data \in RaceSendData, otp \in RaceCodes : send_otp_delete(data, otp)
    /\ BagCardinality(threads') <= MaxThreads
    /\ auth.issued + Sending(threads') <= MaxRaceOtps

DoSendOtpInsert ==
    \E th \in BagToSet(threads) : send_otp_insert(th)

DoVerifyOtpFind ==
    /\ \E data \in RaceVerifyData : verify_otp_find(data)
    /\ BagCardinality(threads') <= MaxThreads

DoVerifyOtpCheck ==
    \E th \in BagToSet(threads) : verify_otp_check(th)

DoVerifyOtpUpsert ==
    \E th \in BagToSet(threads), retried \in BOOLEAN :
        verify_otp_upsert(th, retried)

NextOtpRace ==
    \/ DoSendOtpDelete
    \/ DoSendOtpInsert
    \/ DoVerifyOtpFind
    \/ DoVerifyOtpCheck
    \/ DoVerifyOtpUpsert

SpecOtpRace == Init /\ [][NextOtpRace]_vars

TypeOK ==
    /\ dbConnected \in BOOLEAN
    /\ now \in Nat
    /\ DOMAIN orders \subseteq 1..(MaxOrders + MaxPricedOrders)

\* ------------------------------------------------------------ properties

OrderIds == DOMAIN orders
LatestOrder == orders[Cardinality(DOMAIN orders)]
IsPaid(o) == o.paidAt # Unset

\* The step is the answer to a request of the named handler.
Answers(op) == resp'.op = op /\ now' = now

\* The signature the gateway issues for a payment: the HMAC, under the
\* shared secret, of the order id and the payment id.
ExpectedSignature(d) ==
    [key |-> "rzp_secret", order |-> d.order_id, payment |-> d.razorpay_payment_id]

\* C1: a verify-payment call for an order that an earlier verify-payment
\* call has already marked paid is answered with an error, or at least
\* applies nothing (the orders collection is as it was), and the id still
\* names exactly one order.
C1_SecondVerifyAppliesNothing ==
    [][Answers("verify_payment") =>
        \A d \in PaymentData :
          (/\ ObjectId(d.order_id) \in OrderIds
           /\ IsPaid(orders[ObjectId(d.order_id)])
           /\ verify_payment(d))
          => /\ resp'.code # 200 \/ orders' = orders
             /\ DOMAIN orders' = DOMAIN orders]_vars

\* C2: a verify-payment request whose signature is not the HMAC of its
\* order id and payment id is answered with an error and leaves the orders
\* collection unchanged.
C2_TamperedSignatureRejected ==
    [][Answers("verify_payment") =>
        \A d \in PaymentData :
          (d.razorpay_signature # ExpectedSignature(d) /\ verify_payment(d))
          => (resp'.code >= 400 /\ orders' = orders)]_vars

\* The transitions the specification allows; "completed" is the word the
\* code writes where the specification says "confirmed".
AllowedTransitions ==
    {<<"pending", "confirmed">>, <<"pending", "completed">>,
     <<"confirmed", "processing">>, <<"completed", "processing">>,
     <<"processing", "shipped">>, <<"shipped", "delivered">>}
    \cup {<<s, "cancelled">> : s \in {"pending", "confirmed", "completed",
                                      "processing", "shipped", "delivered"}}

\* C3: every change of the status of a persisted order follows an allowed
\* transition; no request moves an order back to an earlier status.
C3_OnlyAllowedTransitions ==
    [][\A id \in OrderIds :
          (id \in DOMAIN orders' /\ orders'[id].status # orders[id].status)
          => <<orders[id].status, orders'[id].status>> \in AllowedTransitions]_vars

\* C4: an order that verify-payment has recorded as paid is never again in
\* the pending (unpaid) state an order is created in.
C4_PaidNeverPendingAgain ==
    [][\A id \in OrderIds :
          IsPaid(orders[id])
          => /\ id \in DOMAIN orders'
             /\ IsPaid(orders'[id])
             /\ orders'[id].status # "pending"]_vars

RECURSIVE QuantityOf(_, _)
QuantityOf(p, items) ==
    IF items = << >> THEN 0
    ELSE (IF ObjectId(Head(items).product_id) = p THEN Head(items).quantity ELSE 0)
         + QuantityOf(p, Tail(items))

\* Catalog price times quantity, summed product by product.
RECURSIVE CatalogTotal(_, _, _)
CatalogTotal(catalog, items, ps) ==
    IF ps = {} THEN 0
    ELSE LET p == CHOOSE x \in ps : TRUE
         IN  catalog[p].base_price * QuantityOf(p, items)
             + CatalogTotal(catalog, items, ps \ {p})

\* C8: the total persisted by a successful order-create request is the sum,
\* over its items, of the catalog price of the product at that moment times
\* the quantity, whatever total the caller put in the request; a later
\* price change leaves the persisted total as it is.
C8_TotalFromCatalogPrices ==
    [][/\ (Answers("create_order") /\ resp'.code = 200) =>
            \A id \in DOMAIN orders' \ OrderIds :
               \A a \in Auths \ {""}, b \in {r \in PricedOrderRequests :
                                              r.items = orders'[id].items} :
                  create_order(a, b)
                  => /\ orders'[id].total_amount
                          = CatalogTotal(products, b.items, DOMAIN products)
                     /\ orders'[id].total_amount # b.total_amount
       /\ Answers("update_product") => orders' = orders]_vars

C8_Witness ==
    /\ resp.op = "create_order"
    /\ resp.code = 200
    /\ products[1].base_price # products[2].base_price
    /\ \E id \in OrderIds :
          LET items == orders[id].items
          IN  /\ Len(items) = 2
              /\ items[1].product_id # items[2].product_id
              /\ items[1].quantity # items[2].quantity
              /\ orders[id].total_amount # ClaimedTotalOf

\* Total times 100, rounded to the nearest integer (halves upwards).
RoundToPaise(total) == (total + 5) \div 10

\* C9: the gateway amount a successful order-create request returns is the
\* order total in paise, rounded to the nearest integer.
C9_AmountIsRoundedTotal ==
    (resp.op = "create_order" /\ resp.code = 200)
    => resp.amount = RoundToPaise(LatestOrder.total_amount)

\* C10 (as stated): with the database connected, a verify-payment request
\* whose id names no order is answered 404 and leaves the orders collection
\* as it was.
C10_UnknownIdIs404 ==
    [][(Answers("verify_payment") /\ dbConnected) =>
        \A d \in PaymentData :
          (ObjectId(d.order_id) \notin OrderIds /\ verify_payment(d))
          => (resp'.code = 404 /\ orders' = orders)]_vars

\* C10 (amended): with the database connected, a verify-payment request
\* whose id is well formed (or absent) and names no order is answered 404,
\* one whose id is malformed is answered 400, and neither creates nor
\* changes an order.
C10_UnknownIdIs404OrMalformed400 ==
    [][(Answers("verify_payment") /\ dbConnected) =>
        \A d \in PaymentData :
          (ObjectId(d.order_id) \notin OrderIds /\ verify_payment(d))
          => /\ resp'.code = (IF d.order_id.kind = "malformed" THEN 400 ELSE 404)
             /\ orders' = orders]_vars

C10_Witness ==
    /\ resp.op = "verify_payment"
    /\ resp.code = 404
    /\ OrderIds # {}

\* ---- C11..C14: credentials, frame and error handling

BadAdminTokens == AnyAdminTokens \ {ADMIN_TOKEN}

Refused ==
    /\ resp'.code \in {401, 403}
    /\ orders' = orders
    /\ products' = products

\* C11: with the database connected, every admin-scoped operation (list
\* orders, update order status, create, update and delete product) called
\* with a missing or incorrect admin credential is answered 401 or 403 and
\* leaves the orders and the products collections as they were.
C11_BadCredentialIsRefused ==
    [][dbConnected =>
        \A t \in BadAdminTokens :
          /\ Answers("get_all_orders") => (get_all_orders(t) => Refused)
          /\ Answers("update_order_status") =>
                \A id \in AdminOrderIdInputs, s \in AdminStatusData :
                  update_order_status(id, s, t) => Refused
          /\ Answers("create_product") =>
                \A p \in AdminProductBodies : create_product(p, t) => Refused
          /\ Answers("update_product") =>
                \A id \in AdminProductIdInputs, p \in AdminProductBodies :
                  update_product(id, p, t) => Refused
          /\ Answers("delete_product") =>
                \A id \in AdminProductIdInputs :
                  delete_product(id, t) => Refused]_vars

C11_Witness ==
    /\ resp.op = "delete_product"
    /\ resp.code = 401
    /\ OrderIds # {}
    /\ Cardinality(DOMAIN products) > Cardinality(ProductOids)

\* C12: an order document is never deleted: an order that exists in the
\* orders collection exists after every request.
C12_OrderNeverDeleted ==
    [][\A id \in OrderIds : id \in DOMAIN orders']_vars

C12_Witness ==
    /\ Cardinality(OrderIds) >= 2
    /\ \E id \in OrderIds : IsPaid(orders[id]) /\ orders[id].updatedAt # Unset

\* The step wrote the one document oid and nothing else.
WroteOnly(oid) ==
    /\ DOMAIN orders' = OrderIds \cup {oid}
    /\ \A id \in OrderIds \ {oid} : orders'[id] = orders[id]

\* C13: a successful order creation, payment verification or admin status
\* update writes one document, the inserted or the addressed one; a
\* request that ends in an error leaves the orders collection as it was.
C13_OneWriteOrNone ==
    [][/\ Answers("create_order") =>
            IF resp'.code = 200
            THEN WroteOnly(InsertedId(orders)) /\ InsertedId(orders) \notin OrderIds
            ELSE orders' = orders
       /\ Answers("verify_payment") =>
            IF resp'.code = 200
            THEN \A d \in StorePaymentData :
                   verify_payment(d)
                   => (ObjectId(d.order_id) \in OrderIds /\ WroteOnly(ObjectId(d.order_id)))
            ELSE orders' = orders
       /\ Answers("update_order_status") =>
            IF resp'.code = 200
            THEN \A id \in StoreOrderIdInputs, s \in StatusData :
                   update_order_status(id, s, ADMIN_TOKEN)
                   => (ObjectId(id) \in OrderIds /\ WroteOnly(ObjectId(id)))
            ELSE orders' = orders]_vars

C13_Witness ==
    /\ resp.op = "update_order_status"
    /\ resp.code = 200
    /\ \E i, j \in OrderIds : orders[i].status = "shipped" /\ orders[j].status = "pending"

OrderOps == {"create_order", "verify_payment", "update_order_status"}

\* C14 (as stated): an error an order handler answers with has the body
\* {success: false, detail: <message>}.
C14_ErrorsAreSuccessFalse ==
    (resp.op \in OrderOps /\ resp.code >= 400)
    => /\ DOMAIN resp.body = {"success", "detail"}
       /\ resp.body.success = FALSE

\* C14 (amended): every invocation of an order handler ends in a response,
\* also when a call to the store raises: either 200 with success: true, or
\* one of the statuses 400, 401, 404, 500, 503 with the body
\* {detail: <message>}, which has no success field.
C14_ErrorsAreDetailOnly ==
    resp.op \in OrderOps
    => \/ resp.code = 200 /\ resp.body.success = TRUE
       \/ /\ resp.code \in {400, 401, 404, 500, 503}
          /\ DOMAIN resp.body = {"detail"}

C14_Witness ==
    /\ resp.op = "verify_payment"
    /\ resp.code = 500
    /\ \E id \in OrderIds : IsPaid(orders[id])

\* ---- C19, C20: what the storefront learns about the stock

HasNoStockKey(product) ==
    /\ "stock" \notin DOMAIN product
    /\ \A i \in 1..Len(product.skus) : "stock" \notin DOMAIN product.skus[i]

\* The SKU lists that differ from skus in stock counts only.
SkuVariants(skus) ==
    {[i \in 1..Len(skus) |->
        IF "stock" \in DOMAIN skus[i]
        THEN [skus[i] EXCEPT !.stock = st[i]] ELSE skus[i]] :
     st \in [1..Len(skus) -> StockLevels]}

\* The documents that differ from product in stock counts only.
StockVariants(product) ==
    {[f \in DOMAIN product |->
        CASE f = "skus" -> sk
          [] f = "stock" -> n
          [] OTHER -> product[f]] :
     sk \in SkuVariants(product.skus), n \in StockLevels}

SameStatus(v, product) ==
    get_stock_status(TotalStock(v.skus, 1, 0)).status
        = get_stock_status(TotalStock(product.skus, 1, 0)).status

\* C19: a product returned by get_products or get_product has no stock
\* field, on itself or on any of its SKUs, and a catalog that differs in
\* stock counts only, with the same stock status for every product, gets
\* the identical response.
C19_NoStockCountInResponse ==
    /\ (resp.op = "get_product" /\ resp.code = 200) =>
          /\ HasNoStockKey(resp.body.product)
          /\ \A id \in DOMAIN products :
                OidStr(id) = resp.body.product["_id"]
                => \A v \in StockVariants(products[id]) :
                      SameStatus(v, products[id]) => ProductBody(id, v) = resp.body
    /\ (resp.op = "get_products" /\ resp.code = 200) =>
          /\ \A i \in 1..Len(resp.body.products) : HasNoStockKey(resp.body.products[i])
          /\ \A sort \in {"newest", "price_low"} :
                ProductsBody(products, sort) = resp.body
                => \A v1 \in StockVariants(products[1]), v2 \in StockVariants(products[2]) :
                      (SameStatus(v1, products[1]) /\ SameStatus(v2, products[2]))
                      => ProductsBody(1 :> v1 @@ 2 :> v2, sort) = resp.body

C19_Witness ==
    /\ resp.op = "get_product"
    /\ resp.code = 200
    /\ resp.body.product["_id"] = OidStr(1)
    /\ Len(products[1].skus) = 2
    /\ products[1].skus[1].stock = 1
    /\ \E v \in StockVariants(products[1]) :
          v # products[1] /\ SameStatus(v, products[1])

\* C20: the status a product page shows partitions the summed stock:
\* stock <= 0 is "Out of Stock" (in_stock false, is_low false), 1..3 is
\* "Low Stock" (in_stock true, is_low true), 4 and more is "In Stock"
\* (in_stock true, is_low false); in_stock holds exactly when stock > 0,
\* and is_low implies in_stock.
C20_StatusPartitionsStock ==
    (resp.op = "get_product" /\ resp.code = 200) =>
        \A id \in DOMAIN products :
          OidStr(id) = resp.body.product["_id"]
          => LET stock == TotalStock(products[id].skus, 1, 0)
                 s == resp.body.product.stock_status
             IN  /\ s.status \in {"Out of Stock", "Low Stock", "In Stock"}
                 /\ s.status = "Out of Stock" <=> stock <= 0
                 /\ s.status = "Low Stock" <=> stock \in 1..3
                 /\ s.status = "In Stock" <=> stock >= 4
                 /\ s.in_stock <=> stock > 0
                 /\ s.is_low <=> s.status = "Low Stock"
                 /\ s.is_low => s.in_stock
                 /\ resp.body.product.in_stock = s.in_stock

C20_Witness ==
    /\ resp.op = "get_product"
    /\ resp.code = 200
    /\ resp.body.product.stock_status.status = "Low Stock"
    /\ TotalStock(products[1].skus, 1, 0) = 3
    /\ resp.body.product["_id"] = OidStr(1)

\* ---- C15..C18: the carrier

\* C15: a book-courier call on an order that a booking has succeeded on
\* before returns the identifiers of that booking, creates no further
\* carrier-side shipment and leaves the order's carrier identifiers as
\* they were.
C15_BookingIsIdempotent ==
    [][(resp'.op = "book_courier" /\ resp'.code = 200) =>
        \A id \in OrderIds :
          (resp'.body.order_id = id /\ orders[id].shipment_id # Unset)
          => /\ carrier'.shipments = carrier.shipments
             /\ Identifiers(orders'[id]) = Identifiers(orders[id])
             /\ resp'.body.booking = Identifiers(orders[id])]_vars

\* The order an identifier may name: by internal id or by gateway id.
Names(ident, id) ==
    ident = OidStr(id) \/ orders[id].gateway_order_id = ident

\* C16: a storefront lookup that finds an order finds one the identifier
\* names and whose payment status is "paid"; a lookup for the id of an
\* order whose payment is pending is answered not-found.
C16_TrackingShowsOnlyPaid ==
    [][(Answers("track_order") /\ dbConnected) =>
        \A ident \in TrackInputs :
          track_order(ident)
          => /\ resp'.code = 200 =>
                  /\ resp'.body.order_id \in OrderIds
                  /\ Names(ident, resp'.body.order_id)
                  /\ orders[resp'.body.order_id].payment_status = "paid"
             /\ (\E id \in OrderIds :
                    Names(ident, id) /\ orders[id].payment_status # "paid")
                => resp'.code = 404]_vars

C16_Witness ==
    /\ resp.op = "track_order"
    /\ resp.code = 404
    /\ \E id \in OrderIds : orders[id].payment_status = "pending"
    /\ \E id \in OrderIds : orders[id].awb_code # Unset

LastCall == carrier.trace[Len(carrier.trace)]

\* C17: a quotation for a valid postal code always answers 200: with the
\* cheapest quoted rate when the carrier listed couriers, and with the
\* flat fallback cost (success false) after every failure: no token, a
\* timeout, a non-200 response, an empty courier list.
C17_QuoteFallsBack ==
    (resp.op = "quote_shipping" /\ resp.code # 400) =>
        /\ resp.code = 200
        /\ carrier.trace # << >>
        /\ IF LastCall.call = "serviceability" /\ LastCall.outcome = "ok"
           THEN resp.body.success /\ resp.body.shipping_cost = 45
           ELSE ~resp.body.success /\ resp.body.shipping_cost = FlatShippingCost

C17_Witness ==
    /\ resp.op = "quote_shipping"
    /\ carrier.trace # << >>
    /\ LastCall.outcome = "timeout"
    /\ Len(carrier.trace) = 3
    /\ resp.body.shipping_cost = FlatShippingCost

IsServiceability(e) == e.call = "serviceability"
IsCreateOrder(e) == e.call = "create_order"
IsAssignAwb(e) == e.call = "assign_awb"

\* C18: a request calls an endpoint of the carrier a second time only
\* after an authorization failure of the first call, and then once, with a
\* token fetched after that failure, the failed token no longer cached; no
\* other outcome is followed by a second call.
C18_OneRetryOnUnauthorized ==
    LET t == carrier.trace
        sv == SelectSeq(t, IsServiceability)
    IN  /\ Len(SelectSeq(t, IsCreateOrder)) <= 1
        /\ Len(SelectSeq(t, IsAssignAwb)) <= 1
        /\ Len(sv) <= 2
        /\ Len(sv) = 2 =>
              /\ sv[1].outcome = "unauthorized"
              /\ sv[2].token # sv[1].token
              /\ t[Len(t)] = sv[2]
              /\ t[Len(t) - 1] = [call |-> "login", outcome |-> "ok", token |-> sv[2].token]
              /\ t[Len(t) - 2] = sv[1]
        /\ (Len(sv) >= 1 /\ sv[1].outcome = "unauthorized") =>
              /\ carrier.token # sv[1].token
              /\ Len(sv) = 2 \/ t[Len(t)].outcome = "failed"

C18_Witness ==
    LET sv == SelectSeq(carrier.trace, IsServiceability)
    IN  /\ resp.op = "quote_shipping"
        /\ Len(sv) = 2
        /\ sv[2].outcome = "ok"
        /\ sv[1].token # 0

\* ---- C21..C26: the cart's product lookup and one-time-password login

\* What the service is to answer to a product id: 400 to a malformed one,
\* 404 to a well-formed one that names no product.
LookupCode(product_id, code) ==
    IF product_id.kind = "malformed" THEN code = 400
    ELSE IF ObjectId(product_id) \notin DOMAIN products THEN code = 404
    ELSE code = 200

\* C22: with the database connected and the caller authenticated, both
\* create_order and add_to_cart answer 404 to a well-formed product id that
\* names no product, and 400 to a malformed one.
C22_UnknownProductIs404 ==
    [][dbConnected =>
        /\ Answers("add_to_cart") =>
             \A c \in CartItems, a \in CartAuths \ {""} :
               add_to_cart(c, a) => LookupCode(c.product_id, resp'.code)
        /\ Answers("create_order") =>
             \A b \in CartOrderRequests :
               create_order("tok", b)
               => LookupCode(b.items[1].product_id, resp'.code)]_vars

\* The OTP records send_otp has stored for the identifier of the request.
RecordsFor(data) ==
    {oid \in DOMAIN auth.otps : auth.otps[oid].identifier = Identifier(data)}

\* The request names an identifier and a code.
WellFormed(data) == Identifier(data) # "" /\ Strip(data.otp) # ""

\* C21: an OTP lives 600 seconds. With the database connected, a
\* verify-otp request made later than 600 seconds after the record was
\* issued is answered 401 whatever code it submits, the correct one
\* included; the record is removed and the users collection is left as it
\* was. Up to the 600th second the correct code logs the user in.
C21_ExpiredOtpIsRejected ==
    [][(Answers("verify_otp") /\ dbConnected) =>
        \A data \in VerifyData : \A oid \in RecordsFor(data) :
          (WellFormed(data) /\ verify_otp(data)) =>
            IF now > auth.otps[oid].createdAt + 600
            THEN /\ resp'.code = 401
                 /\ oid \notin DOMAIN auth'.otps
                 /\ auth'.users = auth.users
                 /\ auth'.logins = auth.logins
            ELSE Strip(data.otp) = auth.otps[oid].otp => resp'.code = 200]_vars

\* An expired record was submitted and removed: no record is left, none
\* has granted a login, and the clock is past the life of any of them.
C21_Witness ==
    /\ resp.op = "verify_otp"
    /\ resp.code = 401
    /\ resp.body.detail = "OTP has expired"
    /\ auth.issued > 0
    /\ auth.otps = << >>
    /\ auth.users = << >>
    /\ now > 600

\* C25: a verify-otp request that is refused (database down, missing field,
\* no OTP record, expired OTP, wrong code) leaves the users collection as it
\* was; one refused for a wrong code, its record not yet expired, is
\* answered 401 and leaves the otps collection as it was.
C25_FailedVerifyLeavesUsers ==
    [][Answers("verify_otp") =>
        \A data \in VerifyData :
          (verify_otp(data) /\ resp'.code # 200) =>
            /\ auth'.users = auth.users
            /\ auth'.logins = auth.logins
            /\ \A oid \in RecordsFor(data) :
                 ( /\ dbConnected
                   /\ WellFormed(data)
                   /\ now <= auth.otps[oid].expiresAt
                   /\ Strip(data.otp) # auth.otps[oid].otp )
                 => (resp'.code = 401 /\ auth'.otps = auth.otps)]_vars

\* A wrong code was refused while a user and a live OTP record exist.
C25_Witness ==
    /\ resp.op = "verify_otp"
    /\ resp.code = 401
    /\ resp.body.detail = "Invalid OTP"
    /\ auth.users # << >>
    /\ \E oid \in DOMAIN auth.otps : now <= auth.otps[oid].expiresAt

\* C23: whatever the interleaving of verify-otp requests, no OTP record
\* send-otp has issued grants more than one successful login.
C23_OtpIsSingleUse ==
    \A oid \in 1..auth.issued : auth.logins[oid] <= 1

\* C24: in every reachable state, concurrent send-otp requests included,
\* the otps collection holds at most one record per identifier.
C24_OneRecordPerIdentifier ==
    \A i, j \in DOMAIN auth.otps :
        auth.otps[i].identifier = auth.otps[j].identifier => i = j

\* The user documents that hold the key.
Holders(users, key, identifier) ==
    {u \in DOMAIN users : key \in DOMAIN users[u] /\ users[u][key] = identifier}

\* The step grants a login.
Granted == \E oid \in 1..auth.issued : auth'.logins[oid] > auth.logins[oid]

\* C26: after every step of every interleaving of logins the users
\* collection holds at most one document per email and at most one per
\* phone number; a login by an identifier that a user document already
\* holds returns the id of that document, and a first login the id of the
\* one document that holds it afterwards.
C26_OneUserPerIdentifier ==
    [][/\ \A e \in Emails : Cardinality(Holders(auth'.users, "email", e)) <= 1
       /\ \A p \in Phones : Cardinality(Holders(auth'.users, "phone", p)) <= 1
       /\ Granted =>
            LET user == resp'.body.user
                key == IF user.email # "" THEN "email" ELSE "phone"
                identifier == IF user.email # "" THEN user.email ELSE user.phone
            IN  /\ resp'.op = "verify_otp"
                /\ resp'.code = 200
                /\ Holders(auth'.users, key, identifier) = {user.id}
                /\ Holders(auth.users, key, identifier) \subseteq {user.id}]_vars

\* Two logins have been granted, the later one while another login was
\* still between its store calls, and one user document holds the email.
C26_Witness ==
    /\ resp.op = "verify_otp"
    /\ resp.code = 200
    /\ \E a, b \in 1..auth.issued :
          a # b /\ auth.logins[a] > 0 /\ auth.logins[b] > 0
    /\ \E e \in Emails : Cardinality(Holders(auth.users, "email", e)) = 1
    /\ threads # NoThreads
====
